---- MODULE Spec2Model ----
(***************************************************************************)
(* replace-it: the rendering pipeline of src/src/index.ts.                 *)
(*                                                                         *)
(* A template is a sequence of tokens.  A token is one lexical unit the    *)
(* regular expressions of processTemplate tell apart: a run of literal     *)
(* text, a {{ path }} expression, one of the block tags {{#if c}},         *)
(* {{else}}, {{/if}}, {{#each p}}, {{/each}}, or a directive of one of the *)
(* two custom handlers the READMEs give ({{#upper p}} and (( p ))).        *)
(* A string value of the data is a token sequence as well, so that a       *)
(* value may itself carry directive text.                                  *)
(***************************************************************************)
EXTENDS Integers, Sequences, FiniteSets

VARIABLES template, data, handlers, pc, result, hi, log

vars == <<template, data, handlers, pc, result, hi, log>>

\* Longest template (in tokens) and longest array the inputs are drawn from.
MaxLen == 4
MaxItems == 2

(***************************************************************************)
(* Values (AnyObject and what it holds)                                    *)
(***************************************************************************)
Undef == [k |-> "undef"]
Str(s) == [k |-> "str", s |-> s]
Bool(b) == [k |-> "bool", b |-> b]
Obj(f) == [k |-> "obj", f |-> f]
Arr(xs) == [k |-> "arr", xs |-> xs]
Fn(nm) == [k |-> "fn", nm |-> nm]

NoBindings == [x \in {} |-> Undef]

Tok(t, p) == [t |-> t, p |-> p]
Text(c) == Tok("text", <<c>>)

\* { ...a, ...b }: a fresh object, b's entries winning.
Merge(a, b) ==
  [x \in (DOMAIN a) \cup (DOMAIN b) |-> IF x \in DOMAIN b THEN b[x] ELSE a[x]]

\* v[name] for a value that is not undefined.
Prop(v, name) ==
  IF v.k = "obj" /\ name \in DOMAIN v.f THEN v.f[name] ELSE Undef

\* What an object spread copies out of a value: the fields of an object,
\* nothing for undefined or a boolean.
OwnFields(v) == IF v.k = "obj" THEN v.f ELSE NoBindings

\* Host-language truthiness.
Truthy(v) ==
  CASE v.k = "undef" -> FALSE
    [] v.k = "bool" -> v.b
    [] v.k = "str" -> Len(v.s) > 0
    [] OTHER -> TRUE

RECURSIVE TextOf(_)
RECURSIVE JoinFrom(_, _)
\* Array.prototype.join(","): undefined elements give the empty text.
JoinFrom(xs, i) ==
  IF i > Len(xs) THEN <<>>
  ELSE (IF i > 1 THEN <<Text(",")>> ELSE <<>>)
       \o (IF xs[i].k = "undef" THEN <<>> ELSE TextOf(xs[i]))
       \o JoinFrom(xs, i + 1)

\* The text form String.prototype.replace gives a callback's result.
TextOf(v) ==
  CASE v.k = "str" -> v.s
    [] v.k = "bool" -> IF v.b THEN <<Text("true")>> ELSE <<Text("false")>>
    [] v.k = "undef" -> <<Text("undefined")>>
    [] v.k = "obj" -> <<Text("[object Object]")>>
    [] v.k = "arr" -> JoinFrom(v.xs, 1)
    [] OTHER -> <<Text("function")>>

UpperStr(c) ==
  CASE c = "a" -> "A" [] c = "m" -> "M" [] c = "n" -> "N" [] c = "s" -> "S"
    [] c = "u" -> "U" [] c = "v" -> "V" [] c = "w" -> "W" [] c = "x" -> "X"
    [] c = "true" -> "TRUE" [] c = "false" -> "FALSE"
    [] c = "undefined" -> "UNDEFINED"
    [] c = "[object Object]" -> "[OBJECT OBJECT]"
    [] c = "function" -> "FUNCTION"
    [] OTHER -> c

\* String.prototype.toUpperCase over a text: the letters of every token.  An
\* upper-cased block or handler tag ({{#IF c}}) is no tag any more, only text
\* between braces.
ToUpperCase(s) ==
  [i \in 1..Len(s) |->
     Tok(IF s[i].t \in {"text", "expr", "paren"} THEN s[i].t ELSE "braced",
         [j \in 1..Len(s[i].p) |-> UpperStr(s[i].p[j])])]

(***************************************************************************)
(* evaluateExpression and getValueByPath                                   *)
(***************************************************************************)
\* The expression text of a token: a dotted path, or text that is no
\* expression of the host language (#if c, else, /if, #each p, /each, #upper p).
PathExpr(p) == [syn |-> "path", p |-> p]
RawExpr(tok) ==
  IF tok.t = "expr" THEN PathExpr(tok.p) ELSE [syn |-> "bad", p |-> tok.p]

Thrown == [v |-> Undef, failed |-> TRUE]

RECURSIVE Member(_, _, _)
\* v.p[i].p[i+1]...: a member access on undefined throws a TypeError.
Member(v, p, i) ==
  IF i > Len(p) THEN [v |-> v, failed |-> FALSE]
  ELSE IF v.k = "undef" THEN Thrown
  ELSE Member(Prop(v, p[i]), p, i + 1)

\* new Function(...keys, "return (" + expression + ");")(...values): the value,
\* or failed when the text does not parse (SyntaxError), its first name is
\* not bound (ReferenceError) or a member access throws.
HostEval(expression, bindings) ==
  IF expression.syn # "path" THEN Thrown
  ELSE IF expression.p[1] \notin DOMAIN bindings THEN Thrown
  ELSE Member(bindings[expression.p[1]], expression.p, 2)

defaultHelpers == [formatCurrency |-> Fn("formatCurrency"), formatDate |-> Fn("formatDate")]

\* The caller's helpers: none.
helpers == NoBindings

mergedHelpers == Merge(defaultHelpers, helpers)

\* try { return fn(...values) } catch { return "" }
evaluateExpression(expression, scope, hs) ==
  LET fullScope == Merge(hs, scope)
      r == HostEval(expression, fullScope)
  IN IF r.failed THEN [v |-> Str(<<>>), failed |-> TRUE] ELSE r

RECURSIVE Reduce(_, _, _)
Reduce(acc, path, i) ==
  IF i > Len(path) THEN acc
  ELSE Reduce(IF acc.k = "undef" THEN Undef ELSE Prop(acc, path[i]), path, i + 1)

getValueByPath(obj, path) == Reduce(Obj(obj), path, 1)

(***************************************************************************)
(* The custom handlers of the READMEs                                      *)
(***************************************************************************)
\* pattern.test: /\{\{#upper (.*?)\}\}/g and /\(\(\s*(.*?)\s*\)\)/g.
Pattern(h, tok) ==
  \/ h = "upper" /\ tok.t = "upper"
  \/ h = "paren" /\ tok.t = "paren"

\* String(getValueByPath(scope, match[1].trim()) ?? "").toUpperCase()
upperHandler(match, scope) ==
  LET value == getValueByPath(scope, match.p) IN
  [txt |-> IF value.k = "undef" THEN <<>> ELSE ToUpperCase(TextOf(value)),
   raised |-> FALSE]

\* new Function(...Object.keys(scope), "return (" + match[1] + ");")(...values),
\* with no try around it: a failing expression throws out of the resolver.
parenHandler(match, scope) ==
  LET r == HostEval(PathExpr(match.p), scope) IN
  IF r.failed THEN [txt |-> <<>>, raised |-> TRUE]
  ELSE [txt |-> TextOf(r.v), raised |-> FALSE]

Resolver(h, match, scope) ==
  IF h = "upper" THEN upperHandler(match, scope) ELSE parenHandler(match, scope)

(***************************************************************************)
(* processTemplate                                                         *)
(*                                                                         *)
(* Every stage gives [txt, log, raised]: the rewritten text, the events of *)
(* the stage in the order they happened, and whether an exception left     *)
(* the stage (txt is then meaningless).  inv names the invocation: the     *)
(* top-level one is <<>>, and the invocation entered for match m of stage  *)
(* s (and element i of the array, 0 for a branch) by invocation inv is     *)
(* inv \o <<<<s, m, i>>>>.                                                 *)
(***************************************************************************)
Top == <<>>

Done(txt, lg) == [txt |-> txt, log |-> lg, raised |-> FALSE]
Raise(lg) == [txt |-> <<>>, log |-> lg, raised |-> TRUE]

\* The first position after pos that holds a tag t, 0 when there is none.
FirstAfter(text, pos, t) ==
  LET S == {j \in (pos + 1)..Len(text) : text[j].t = t} IN
  IF S = {} THEN 0 ELSE CHOOSE j \in S : \A l \in S : j <= l

\* inner.split(/\{\{else\}\}/): element 0, and element 1 or "" when absent.
TruthyBlock(inner) ==
  LET e == FirstAfter(inner, 0, "else") IN
  IF e = 0 THEN inner ELSE SubSeq(inner, 1, e - 1)

FalsyBlock(inner) ==
  LET e == FirstAfter(inner, 0, "else") IN
  IF e = 0 THEN <<>>
  ELSE LET f == FirstAfter(inner, e, "else") IN
       SubSeq(inner, e + 1, IF f = 0 THEN Len(inner) ELSE f - 1)

\* Mutant of SelectBranch: the branches the wrong way round.
SelectBranchSwapped(cond, truthyBlock, falsyBlock) ==
  IF Truthy(cond) THEN falsyBlock ELSE truthyBlock

\* cond ? truthyBlock : falsyBlock
SelectBranch(cond, truthyBlock, falsyBlock) ==
  IF Truthy(cond) THEN truthyBlock ELSE falsyBlock

RECURSIVE ChildScopeShared(_, _, _)
\* Mutant of ChildScope: Object.assign(scope, item), one object shared by the
\* iterations, so that element i finds what elements 1..i-1 bound.
ChildScopeShared(scope, arr, i) ==
  IF i = 0 THEN scope
  ELSE Merge(ChildScopeShared(scope, arr, i - 1), OwnFields(arr[i]))

\* { ...scope, ...item } for element i of arr.
ChildScope(scope, arr, i) == Merge(scope, OwnFields(arr[i]))

\* Mutant of HandlerScope: the resolver is handed the caller's data.
HandlerScopeData(scope) == data

\* The scope argument of handler(match, scope, mergedHelpers).
HandlerScope(scope) == scope

\* Mutant of LoopTarget: the last element is left out.
LoopTargetShort(arr) ==
  IF arr.k = "arr" /\ Len(arr.xs) > 0 THEN SubSeq(arr.xs, 1, Len(arr.xs) - 1)
  ELSE <<>>

\* if (!Array.isArray(arr)) return ""; otherwise the elements to map over.
LoopTarget(arr) == IF arr.k = "arr" THEN arr.xs ELSE <<>>

\* Mutant of RawText: the value without ?? "".
RawTextNoDefault(value) == TextOf(value)

\* value ?? "", as replace turns it into text.
RawText(value) == IF value.k = "undef" THEN <<>> ELSE TextOf(value)

\* A token the raw-expression pattern /\{\{(.*?)\}\}/g matches.
Braced(tok) == tok.t \notin {"text", "paren"}

RECURSIVE processTemplate(_, _, _)
RECURSIVE IfFrom(_, _, _, _, _)
RECURSIVE EachFrom(_, _, _, _, _)
RECURSIVE MapItems(_, _, _, _, _, _)
RECURSIVE HandlerFrom(_, _, _, _, _, _)
RECURSIVE HandlersFrom(_, _, _, _)
RECURSIVE RawFrom(_, _, _, _)

\* A token no pattern of the stage matches stays where it is.
Kept(tok, rest) ==
  IF rest.raised THEN Raise(rest.log) ELSE Done(<<tok>> \o rest.txt, rest.log)

\* The events lg, then what r did.
Logged(lg, r) ==
  IF r.raised THEN Raise(lg \o r.log) ELSE Done(r.txt, lg \o r.log)

\* A match replaced by what the invocation(s) rec returned, the events ev of
\* the replace callback after them, then the rest of the scan.  An exception
\* in rec leaves the scan at once.
Replaced(rec, ev, rest) ==
  IF rec.raised THEN Raise(rec.log)
  ELSE IF rest.raised THEN Raise(rec.log \o ev \o rest.log)
  ELSE Done(rec.txt \o rest.txt, rec.log \o ev \o rest.log)

CondEvent(tok, inner, cond, scope, inv, child, rec) ==
  [k |-> "cond", inv |-> inv, stage |-> 1, tok |-> tok,
   scope |-> scope, truthy |-> Truthy(cond.v), failed |-> cond.failed,
   inner |-> inner, child |-> child, rep |-> rec.txt]

EachEvent(tok, inner, arr, scope, inv, m, rec) ==
  [k |-> "each", inv |-> inv, stage |-> 2, tok |-> tok,
   scope |-> scope, arr |-> arr, body |-> inner, m |-> m, rep |-> rec.txt]

HandlerEvent(n, tok, scope, inv, r) ==
  [k |-> "handler", inv |-> inv, stage |-> 3, n |-> n, h |-> handlers[n],
   tok |-> tok, scope |-> scope, raised |-> r.raised]

ExprEvent(tok, scope, inv, value) ==
  [k |-> "expr", inv |-> inv, stage |-> 4, tok |-> tok,
   scope |-> scope, failed |-> value.failed, txt |-> RawText(value.v)]

\* return cond ? processTemplate(truthyBlock, scope)
\*             : processTemplate(falsyBlock, scope)
IfReplace(tok, inner, cond, scope, inv, child, rec, rest) ==
  Replaced(rec, <<CondEvent(tok, inner, cond, scope, inv, child, rec)>>, rest)

\* result.replace(ifRegex, ...) from position pos on, m matches done so far.
IfFrom(text, pos, scope, inv, m) ==
  IF pos > Len(text) THEN Done(<<>>, <<>>)
  ELSE
    LET j == IF text[pos].t = "if" THEN FirstAfter(text, pos, "endif") ELSE 0 IN
    IF j = 0
    THEN Kept(text[pos], IfFrom(text, pos + 1, scope, inv, m))
    ELSE
      LET inner == SubSeq(text, pos + 1, j - 1)
          cond == evaluateExpression(PathExpr(text[pos].p), scope, mergedHelpers)
          child == inv \o <<<<1, m + 1, 0>>>>
      IN IfReplace(text[pos], inner, cond, scope, inv, child,
                   processTemplate(
                     SelectBranch(cond.v, TruthyBlock(inner), FalsyBlock(inner)),
                     scope, child),
                   IfFrom(text, j + 1, scope, inv, m + 1))

\* arr.map((item) => processTemplate(inner, { ...scope, ...item })).join("")
\* from element i on.
MapItems(arr, i, inner, scope, inv, m) ==
  IF i > Len(arr) THEN Done(<<>>, <<>>)
  ELSE Replaced(processTemplate(inner, ChildScope(scope, arr, i),
                                inv \o <<<<2, m, i>>>>),
                <<>>,
                MapItems(arr, i + 1, inner, scope, inv, m))

\* The replace callback of the loop stage has returned rec.
EachReplace(tok, inner, arr, scope, inv, m, rec, rest) ==
  Replaced(rec, <<EachEvent(tok, inner, arr, scope, inv, m, rec)>>, rest)

\* result.replace(eachRegex, ...) from position pos on, m matches done so far.
EachFrom(text, pos, scope, inv, m) ==
  IF pos > Len(text) THEN Done(<<>>, <<>>)
  ELSE
    LET j == IF text[pos].t = "each" THEN FirstAfter(text, pos, "endeach") ELSE 0 IN
    IF j = 0
    THEN Kept(text[pos], EachFrom(text, pos + 1, scope, inv, m))
    ELSE
      LET inner == SubSeq(text, pos + 1, j - 1)
          arr == getValueByPath(scope, text[pos].p)
      IN EachReplace(text[pos], inner, arr, scope, inv, m + 1,
                     MapItems(LoopTarget(arr), 1, inner, scope, inv, m + 1),
                     EachFrom(text, j + 1, scope, inv, m + 1))

\* The resolver of handler number n has returned r, or thrown.
HandlerReplace(n, tok, scope, inv, r, rest) ==
  IF r.raised THEN Raise(<<HandlerEvent(n, tok, scope, inv, r)>>)
  ELSE Replaced(Done(r.txt, <<HandlerEvent(n, tok, scope, inv, r)>>), <<>>, rest)

\* result.replace(pattern, ...) of handler number n, from position pos on.
HandlerFrom(n, text, pos, scope, inv, m) ==
  IF pos > Len(text) THEN Done(<<>>, <<>>)
  ELSE IF ~Pattern(handlers[n], text[pos])
  THEN Kept(text[pos], HandlerFrom(n, text, pos + 1, scope, inv, m))
  ELSE HandlerReplace(n, text[pos], HandlerScope(scope), inv,
                      Resolver(handlers[n], text[pos], HandlerScope(scope)),
                      HandlerFrom(n, text, pos + 1, scope, inv, m + 1))

\* Handler number n has rewritten the text: on to handler number n + 1.
HandlersAfter(r, n, scope, inv) ==
  IF r.raised THEN r ELSE Logged(r.log, HandlersFrom(n + 1, r.txt, scope, inv))

\* for (const { pattern, handler } of handlers), from handler number n on.
HandlersFrom(n, text, scope, inv) ==
  IF n > Len(handlers) THEN Done(text, <<>>)
  ELSE HandlersAfter(HandlerFrom(n, text, 1, scope, inv, 0), n, scope, inv)

\* return value ?? ""
RawReplace(tok, scope, inv, value, rest) ==
  Replaced(Done(RawText(value.v), <<ExprEvent(tok, scope, inv, value)>>), <<>>, rest)

\* result.replace(/\{\{(.*?)\}\}/g, ...) from position pos on.
RawFrom(text, pos, scope, inv) ==
  IF pos > Len(text) THEN Done(<<>>, <<>>)
  ELSE IF ~Braced(text[pos])
  THEN Kept(text[pos], RawFrom(text, pos + 1, scope, inv))
  ELSE RawReplace(text[pos], scope, inv,
                  evaluateExpression(RawExpr(text[pos]), scope, mergedHelpers),
                  RawFrom(text, pos + 1, scope, inv))

\* Mutant of RawExpressions: the substituted text is scanned once more.
RawExpressionsAgain(text, scope, inv) ==
  LET r == RawFrom(text, 1, scope, inv) IN
  Logged(r.log, RawFrom(r.txt, 1, scope, inv))

Conditionals(text, scope, inv) == IfFrom(text, 1, scope, inv, 0)
Loops(text, scope, inv) == EachFrom(text, 1, scope, inv, 0)
CustomHandlers(text, scope, inv) == HandlersFrom(1, text, scope, inv)
RawExpressions(text, scope, inv) == RawFrom(text, 1, scope, inv)

CallEvent(tmpl, scope, inv) ==
  [k |-> "call", inv |-> inv, stage |-> 0, tmpl |-> tmpl, scope |-> scope]
RetEvent(out, inv) == [k |-> "ret", inv |-> inv, stage |-> 5, out |-> out]

\* return result
Return(r, inv) ==
  IF r.raised THEN r ELSE Done(r.txt, r.log \o <<RetEvent(r.txt, inv)>>)

\* 2) Loops, on the text the conditionals left.
LoopsAfter(r, scope, inv) ==
  IF r.raised THEN r ELSE Logged(r.log, Loops(r.txt, scope, inv))

\* 3) Custom handlers, on the text the loops left.
CustomHandlersAfter(r, scope, inv) ==
  IF r.raised THEN r ELSE Logged(r.log, CustomHandlers(r.txt, scope, inv))

\* 4) Raw expressions, on the text the stage before left.
RawExpressionsAfter(r, scope, inv) ==
  IF r.raised THEN r ELSE Logged(r.log, RawExpressions(r.txt, scope, inv))

\* Mutant of processTemplate: raw expressions before the custom handlers.
processTemplateRawFirst(tmpl, scope, inv) ==
  Logged(<<CallEvent(tmpl, scope, inv)>>,
         Return(CustomHandlersAfter(
                  RawExpressionsAfter(
                    LoopsAfter(Conditionals(tmpl, scope, inv), scope, inv),
                    scope, inv),
                  scope, inv),
                inv))

processTemplate(tmpl, scope, inv) ==
  Logged(<<CallEvent(tmpl, scope, inv)>>,
         Return(RawExpressionsAfter(
                  CustomHandlersAfter(
                    LoopsAfter(Conditionals(tmpl, scope, inv), scope, inv),
                    scope, inv),
                  scope, inv),
                inv))

(***************************************************************************)
(* The inputs of renderTemplate                                            *)
(***************************************************************************)
PathUN == <<"u", "n">>
PathItems == <<"items">>

Atoms == {Text("x"), Tok("expr", PathUN), Tok("upper", PathUN), Tok("paren", PathUN)}
IfTag == Tok("if", PathUN)
ElseTag == Tok("else", <<>>)
EndIfTag == Tok("endif", <<>>)
EachTag == Tok("each", PathItems)
EndEachTag == Tok("endeach", <<>>)

\* The templates of exactly n tokens whose block tags are balanced.
WellFormed[n \in 0..MaxLen] ==
  IF n = 0 THEN {<<>>}
  ELSE
    {<<a>> \o w : a \in Atoms, w \in WellFormed[n - 1]}
    \cup UNION {{<<IfTag>> \o a \o <<EndIfTag>> \o w :
                   a \in WellFormed[i], w \in WellFormed[n - 2 - i]} :
                i \in 0..(n - 2)}
    \cup UNION {{<<EachTag>> \o a \o <<EndEachTag>> \o w :
                   a \in WellFormed[i], w \in WellFormed[n - 2 - i]} :
                i \in 0..(n - 2)}
    \cup UNION {UNION {{<<IfTag>> \o a \o <<ElseTag>> \o b \o <<EndIfTag>> \o w :
                          a \in WellFormed[i], b \in WellFormed[j],
                          w \in WellFormed[n - 3 - i - j]} :
                       j \in 0..(n - 3 - i)} :
                i \in 0..(n - 3)}

\* t inside one more block: a conditional without or with {{else}}, a loop.
Wrapped(t) ==
  {<<IfTag>> \o t \o <<EndIfTag>>, <<EachTag>> \o t \o <<EndEachTag>>}
  \cup {<<IfTag>> \o SubSeq(t, 1, i) \o <<ElseTag>> \o SubSeq(t, i + 1, Len(t))
          \o <<EndIfTag>> : i \in {j \in 0..Len(t) : SubSeq(t, 1, j) \in WellFormed[j]}}

\* The templates of at most MaxLen tokens, and each of those of fewer tokens
\* inside one more block.
Templates ==
  UNION {WellFormed[n] : n \in 0..MaxLen}
  \cup UNION {UNION {Wrapped(t) : t \in WellFormed[n]} : n \in 0..(MaxLen - 1)}

\* data.u: absent, without n, a text, false, or a text that carries a
\* directive of its own ("a{{ u.m }}", beside u.m = "s").
UValues ==
  {Obj(NoBindings),
   Obj([n |-> Str(<<Text("v")>>)]),
   Obj([n |-> Bool(FALSE)]),
   Obj([n |-> Str(<<Text("a"), Tok("expr", <<"u", "m">>)>>), m |-> Str(<<Text("s")>>)])}

\* Element i of data.items: the first binds u itself, the second binds only
\* k, the third binds u again, and so on in turn.
Element(i) ==
  CASE i % 3 = 1 -> Obj([u |-> Obj([n |-> Str(<<Text("w")>>)])])
    [] i % 3 = 2 -> Obj([k |-> Str(<<Text("z")>>)])
    [] OTHER -> Obj([u |-> Obj([n |-> Bool(FALSE)])])

\* data.items: absent, a text (no array), or an array of at most MaxItems.
ItemsValues ==
  {Str(<<Text("v")>>)} \cup {Arr([i \in 1..n |-> Element(i)]) : n \in 0..MaxItems}

DataSet ==
  {Merge(a, b) : a \in {NoBindings} \cup {[u |-> x] : x \in UValues},
                 b \in {NoBindings} \cup {[items |-> x] : x \in ItemsValues}}

HandlerLists == {<<>>, <<"upper", "paren">>}

(***************************************************************************)
(* renderTemplate, one step per stage of the top-level processTemplate     *)
(***************************************************************************)
Init ==
  /\ template \in Templates
  /\ data \in DataSet
  /\ handlers \in HandlerLists
  /\ pc = "conditionals"
  /\ result = template
  /\ hi = 1
  /\ log = <<CallEvent(template, data, Top)>>

Step(r, next) ==
  /\ log' = log \o r.log
  /\ result' = IF r.raised THEN result ELSE r.txt
  /\ pc' = IF r.raised THEN "raised" ELSE next
  /\ UNCHANGED <<template, data, handlers>>

\* 1) Conditionals
ResolveConditionals ==
  /\ pc = "conditionals"
  /\ Step(Conditionals(result, data, Top), "loops")
  /\ hi' = hi

\* 2) Loops
ResolveLoops ==
  /\ pc = "loops"
  /\ Step(Loops(result, data, Top), "handlers")
  /\ hi' = hi

\* 3) Custom handlers: one turn of the for loop.
ApplyHandler ==
  /\ pc = "handlers"
  /\ hi <= Len(handlers)
  /\ Step(HandlerFrom(hi, result, 1, data, Top, 0), "handlers")
  /\ hi' = hi + 1

\* 4) Raw expressions, and the return of the result.
SubstituteRaw ==
  /\ pc = "handlers"
  /\ hi > Len(handlers)
  /\ Step(Return(RawExpressions(result, data, Top), Top), "done")
  /\ hi' = hi

Next == ResolveConditionals \/ ResolveLoops \/ ApplyHandler \/ SubstituteRaw

Spec == Init /\ [][Next]_vars

(***************************************************************************)
(* Reading the log                                                         *)
(***************************************************************************)
EventsOf(kind) == {i \in DOMAIN log : log[i].k = kind}
Range(s) == {s[i] : i \in DOMAIN s}
Parent(inv) == SubSeq(inv, 1, Len(inv) - 1)
Last(inv) == inv[Len(inv)]
CallsOf(inv) == {i \in EventsOf("call") : log[i].inv = inv}
RetsOf(inv) == {i \in EventsOf("ret") : log[i].inv = inv}
CallOf(inv) == log[CHOOSE i \in CallsOf(inv) : TRUE]
RetOf(inv) == log[CHOOSE i \in RetsOf(inv) : TRUE]

RECURSIVE Flatten(_)
Flatten(ss) == IF ss = <<>> THEN <<>> ELSE Head(ss) \o Flatten(Tail(ss))

TagsOf(tmpl) == {tmpl[i].t : i \in DOMAIN tmpl}
ElseCount(inner) == Cardinality({i \in DOMAIN inner : inner[i].t = "else"})

\* The template is one block: it opens with tag open and the first close is
\* its last token.
OneBlock(tmpl, open, close) ==
  /\ Len(tmpl) >= 2
  /\ tmpl[1].t = open
  /\ FirstAfter(tmpl, 1, close) = Len(tmpl)

\* The value a dotted path names in a scope (helpers included), undefined
\* when a segment is absent.
Named(scope, p) == getValueByPath(Merge(mergedHelpers, scope), p)

\* A text value of the data carries a directive.
HasDirective(v) == v.k = "str" /\ \E i \in DOMAIN v.s : Braced(v.s[i])
DirectiveInData == HasDirective(Named(data, PathUN))

(***************************************************************************)
(* The rendering the specification describes: blocks closed by their       *)
(* matching tag, every directive of a loop body read in the child scope.   *)
(***************************************************************************)
RECURSIVE CloseOf(_, _, _, _, _)
\* The tag closing the block whose content starts at pos (0: none).
CloseOf(tmpl, pos, depth, open, close) ==
  IF pos > Len(tmpl) THEN 0
  ELSE IF tmpl[pos].t = close
  THEN IF depth = 0 THEN pos ELSE CloseOf(tmpl, pos + 1, depth - 1, open, close)
  ELSE CloseOf(tmpl, pos + 1, IF tmpl[pos].t = open THEN depth + 1 ELSE depth,
               open, close)

RECURSIVE OwnElse(_, _, _)
\* The {{else}} of a block's content that belongs to the block itself (0: none).
OwnElse(inner, pos, depth) ==
  IF pos > Len(inner) THEN 0
  ELSE IF inner[pos].t = "else" /\ depth = 0 THEN pos
  ELSE OwnElse(inner, pos + 1,
               CASE inner[pos].t = "if" -> depth + 1
                 [] inner[pos].t = "endif" -> depth - 1
                 [] OTHER -> depth)

RECURSIVE Intended(_, _)
Intended(tmpl, scope) ==
  IF tmpl = <<>> THEN <<>>
  ELSE
    LET tok == Head(tmpl) IN
    CASE tok.t = "if" ->
           LET j == CloseOf(tmpl, 2, 0, "if", "endif")
               inner == SubSeq(tmpl, 2, j - 1)
               e == OwnElse(inner, 1, 0)
               A == IF e = 0 THEN inner ELSE SubSeq(inner, 1, e - 1)
               B == IF e = 0 THEN <<>> ELSE SubSeq(inner, e + 1, Len(inner))
           IN Intended(IF Truthy(Named(scope, tok.p)) THEN A ELSE B, scope)
              \o Intended(SubSeq(tmpl, j + 1, Len(tmpl)), scope)
      [] tok.t = "each" ->
           LET j == CloseOf(tmpl, 2, 0, "each", "endeach")
               body == SubSeq(tmpl, 2, j - 1)
               arr == getValueByPath(scope, tok.p)
               xs == IF arr.k = "arr" THEN arr.xs ELSE <<>>
           IN Flatten([i \in 1..Len(xs) |->
                         Intended(body, Merge(scope, OwnFields(xs[i])))])
              \o Intended(SubSeq(tmpl, j + 1, Len(tmpl)), scope)
      [] tok.t = "expr" ->
           LET v == Named(scope, tok.p) IN
           (IF v.k = "undef" THEN <<>> ELSE TextOf(v)) \o Intended(Tail(tmpl), scope)
      [] OTHER -> <<tok>> \o Intended(Tail(tmpl), scope)

\* An {{#if}} tag stands inside another conditional block.
HasNestedIf(tmpl) ==
  \E i \in DOMAIN tmpl :
    /\ tmpl[i].t = "if"
    /\ \E j \in 1..(i - 1) : tmpl[j].t = "if" /\ CloseOf(tmpl, j + 1, 0, "if", "endif") > i

(***************************************************************************)
(* The claims                                                              *)
(***************************************************************************)

\* C1: renderTemplate never raises: whatever the template, the data and the
\* handlers, no exception leaves the pipeline.
C1_NeverRaises == pc # "raised"

\* C5: a template with a conditional written inside a branch of another
\* conditional (no loops, no handlers, no directive text in the data) renders
\* as the specification describes: the outer branch selected by the outer
\* condition, the inner branch by the inner one.
C5_NestedConditionals ==
  (/\ pc = "done"
   /\ handlers = <<>>
   /\ TagsOf(template) \subseteq {"text", "expr", "if", "else", "endif"}
   /\ HasNestedIf(template)
   /\ ~DirectiveInData)
  => result = Intended(template, data)

\* C4: a template that is one loop, whose body holds only text, raw
\* expressions and conditionals that are not nested (no handlers, no directive
\* text in the data), renders with every directive of the body, conditions
\* included, read in the per-iteration child scope.
C4_BodyInChildScope ==
  (/\ pc = "done"
   /\ handlers = <<>>
   /\ OneBlock(template, "each", "endeach")
   /\ TagsOf(SubSeq(template, 2, Len(template) - 1))
        \subseteq {"text", "expr", "if", "else", "endif"}
   /\ ~HasNestedIf(template)
   /\ ~DirectiveInData)
  => result = Intended(template, data)

\* The branches of a block's content that holds at most one {{else}}: all of
\* it and nothing, or what stands before and after the {{else}}.
BranchA(inner) ==
  IF ElseCount(inner) = 0 THEN inner
  ELSE SubSeq(inner, 1, (CHOOSE i \in DOMAIN inner : inner[i].t = "else") - 1)
BranchB(inner) ==
  IF ElseCount(inner) = 0 THEN <<>>
  ELSE SubSeq(inner, (CHOOSE i \in DOMAIN inner : inner[i].t = "else") + 1, Len(inner))

\* C2: every conditional block the scan finds (content with at most one
\* {{else}}) is replaced by the rendering of exactly one branch: the first when
\* the condition names a truthy value in the scope, otherwise the second,
\* which is empty without {{else}}; a failed evaluation counts as falsy; the
\* other branch is rendered by no invocation.  A template that is one such
\* block is, after the conditional stage, that rendering and nothing else.
C2_OneBranch ==
  /\ \A i \in EventsOf("cond") :
       LET e == log[i]
           holds == Truthy(Named(e.scope, e.tok.p))
           chosen == IF holds THEN BranchA(e.inner) ELSE BranchB(e.inner)
       IN ElseCount(e.inner) <= 1 =>
            /\ e.truthy = holds
            /\ e.failed => ~e.truthy
            /\ Cardinality(CallsOf(e.child)) = 1
            /\ Cardinality(RetsOf(e.child)) = 1
            /\ CallOf(e.child).tmpl = chosen
            /\ CallOf(e.child).scope = e.scope
            /\ RetOf(e.child).out = e.rep
            /\ \A j \in EventsOf("call") :
                 Len(log[j].inv) > Len(e.inv)
                 /\ SubSeq(log[j].inv, 1, Len(e.inv) + 1) = e.child
                 => j < i
  /\ (pc = "loops" /\ OneBlock(template, "if", "endif")
      /\ ElseCount(template) <= 1)
     => /\ Cardinality({i \in EventsOf("cond") : log[i].inv = Top}) = 1
        /\ \A i \in EventsOf("cond") : log[i].inv = Top => result = log[i].rep

\* C2 witness: a condition whose evaluation failed (u is not bound) selected
\* the non-empty {{else}} branch of a block whose first branch is not empty.
C2_Witness ==
  \E i \in EventsOf("cond") :
    /\ log[i].failed /\ ~log[i].truthy /\ log[i].rep # <<>>
    /\ ElseCount(log[i].inner) = 1
    /\ BranchA(log[i].inner) # <<>>
    /\ RetOf(log[i].child).out = log[i].rep

\* The invocations entered for match m of the loop stage of invocation inv.
Iterations(inv, m) ==
  {j \in EventsOf("call") :
     /\ Len(log[j].inv) = Len(inv) + 1
     /\ Parent(log[j].inv) = inv
     /\ Last(log[j].inv)[1] = 2
     /\ Last(log[j].inv)[2] = m}

\* C3: every loop block the scan finds is replaced by exactly N renderings of
\* its body, N the length of the array its path names in the scope, one per
\* element, entered in the array's order and concatenated with nothing
\* between; for an empty array, a value that is no array or no value there is
\* no rendering and the replacement is empty.  A template that is one loop
\* block is, after the loop stage, that replacement and nothing else.
C3_Loop ==
  /\ \A i \in EventsOf("each") :
       LET e == log[i]
           target == Named(e.scope, e.tok.p)
           N == IF target.k = "arr" THEN Len(target.xs) ELSE 0
           kids == Iterations(e.inv, e.m)
           Kid(n) == e.inv \o <<<<2, e.m, n>>>>
       IN /\ Cardinality(kids) = N
          /\ {Last(log[j].inv)[3] : j \in kids} = 1..N
          /\ \A j \in kids : log[j].tmpl = e.body
          /\ \A j1, j2 \in kids :
               j1 < j2 => Last(log[j1].inv)[3] < Last(log[j2].inv)[3]
          /\ \A n \in 1..N : Cardinality(RetsOf(Kid(n))) = 1
          /\ e.rep = Flatten([n \in 1..N |-> RetOf(Kid(n)).out])
  /\ (pc = "handlers" /\ hi = 1 /\ OneBlock(template, "each", "endeach"))
     => /\ Cardinality({i \in EventsOf("each") : log[i].inv = Top}) = 1
        /\ \A i \in EventsOf("each") : log[i].inv = Top => result = log[i].rep

\* C3 witness: a loop over two elements was replaced by two different
\* renderings of its body, in the elements' order.
C3_Witness ==
  \E i \in EventsOf("each") :
    LET e == log[i] IN
    /\ e.arr.k = "arr" /\ Len(e.arr.xs) = 2
    /\ RetsOf(e.inv \o <<<<2, e.m, 1>>>>) # {}
    /\ RetsOf(e.inv \o <<<<2, e.m, 2>>>>) # {}
    /\ RetOf(e.inv \o <<<<2, e.m, 1>>>>).out # RetOf(e.inv \o <<<<2, e.m, 2>>>>).out
    /\ RetOf(e.inv \o <<<<2, e.m, 1>>>>).out # <<>>
    /\ e.rep = RetOf(e.inv \o <<<<2, e.m, 1>>>>).out
               \o RetOf(e.inv \o <<<<2, e.m, 2>>>>).out

\* What a raw {{ path }} is to be replaced by in a scope.
PathText(scope, p) ==
  LET v == Named(scope, p) IN IF v.k = "undef" THEN <<>> ELSE TextOf(v)

\* C6: every raw {{ path }} the top-level raw-expression stage meets is
\* replaced by the text form of the value the path names in the data, and by
\* the empty text when a segment is absent or the evaluation failed; and a
\* template of text and raw paths only renders token by token, each path
\* replaced on its own whatever becomes of the others.
C6_RawPath ==
  /\ \A i \in EventsOf("expr") :
       LET e == log[i] IN
       (e.inv = Top /\ e.tok.t = "expr") =>
         /\ e.txt = PathText(data, e.tok.p)
         /\ e.failed => e.txt = <<>>
  /\ (pc = "done" /\ TagsOf(template) \subseteq {"text", "expr"})
     => result = Flatten([i \in DOMAIN template |->
                            IF template[i].t = "text" THEN <<template[i]>>
                            ELSE PathText(data, template[i].p)])

\* C6 witness: a template of text and raw paths was rendered where a segment
\* of the path is absent (u is bound, u.n is not).
C6_Witness ==
  /\ pc = "done"
  /\ TagsOf(template) = {"text", "expr"}
  /\ "u" \in DOMAIN data
  /\ Named(data, PathUN).k = "undef"
  /\ result # <<>>

\* The events of one invocation, in the order of the log.
Staged == {i \in DOMAIN log : log[i].k \in {"cond", "each", "handler", "expr"}}

\* C7: in every invocation the events come in the order conditionals, loops,
\* handlers in array order, raw expressions; a directive of the upper handler
\* is never evaluated as a raw expression when that handler is registered;
\* and a finished template of text, raw paths and upper directives had every
\* upper directive resolved by the handler and every raw path by the
\* raw-expression stage.
C7_StageOrder ==
  /\ \A i, j \in Staged :
       (i < j /\ log[i].inv = log[j].inv) =>
         /\ log[i].stage <= log[j].stage
         /\ (log[i].k = "handler" /\ log[j].k = "handler") => log[i].n <= log[j].n
  /\ \A i \in EventsOf("expr") :
       log[i].tok.t = "upper" => \A n \in DOMAIN handlers : handlers[n] # "upper"
  /\ (pc = "done" /\ handlers # <<>>
      /\ TagsOf(template) \subseteq {"text", "expr", "upper"})
     => /\ Cardinality({i \in EventsOf("handler") : log[i].tok.t = "upper"})
             = Cardinality({i \in DOMAIN template : template[i].t = "upper"})
        /\ Cardinality({i \in EventsOf("expr") : log[i].tok = Tok("expr", PathUN)})
             = Cardinality({i \in DOMAIN template : template[i].t = "expr"})

\* C7 witness: inside a conditional branch an upper directive was resolved by
\* its handler and a raw path, after it, by the raw-expression stage.
C7_Witness ==
  \E i \in EventsOf("handler"), j \in EventsOf("expr") :
    /\ log[i].inv = log[j].inv
    /\ log[i].inv # Top
    /\ log[i].tok.t = "upper"
    /\ log[j].tok.t = "expr"
    /\ i < j

\* C8 (as claimed): every call of a handler's resolver receives the caller's
\* data, also for a match inside a loop body.
C8_AlwaysTopScope ==
  \A i \in EventsOf("handler") : log[i].scope = data

\* C8 (amended): every call of a handler's resolver receives the scope of the
\* invocation that found the match: the caller's data in the top-level
\* invocation and in the rendering of a branch of it, the per-iteration child
\* scope in the rendering of a loop body.
C8_InvocationScope ==
  \A i \in EventsOf("handler") :
    /\ CallsOf(log[i].inv) # {}
    /\ log[i].scope = CallOf(log[i].inv).scope
    /\ (\A n \in DOMAIN log[i].inv : log[i].inv[n][1] = 1) => log[i].scope = data

\* C8 witness: a resolver called in the rendering of a loop body received a
\* scope that is not the caller's data.
C8_Witness ==
  \E i \in EventsOf("handler") :
    /\ log[i].inv # Top
    /\ Last(log[i].inv)[1] = 2
    /\ log[i].scope # data
    /\ log[i].scope = CallOf(log[i].inv).scope

\* C9: the scope of a loop iteration is the enclosing scope with that
\* iteration's element spread over it and nothing else, the scope of a branch
\* is the enclosing scope, every evaluation of an invocation reads that
\* invocation's scope, and the top-level invocation reads the caller's data
\* throughout, which never changes.
C9_ScopesAreCopies ==
  /\ \A i \in EventsOf("call") :
       LET c == log[i] IN
       IF c.inv = Top THEN c.scope = data
       ELSE /\ CallsOf(Parent(c.inv)) # {}
            /\ LET up == CallOf(Parent(c.inv)).scope
                   items == Named(up, PathItems)
               IN IF Last(c.inv)[1] = 1 THEN c.scope = up
                  ELSE /\ items.k = "arr"
                       /\ Last(c.inv)[3] \in DOMAIN items.xs
                       /\ c.scope = Merge(up, OwnFields(items.xs[Last(c.inv)[3]]))
  /\ \A i \in Staged : log[i].scope = CallOf(log[i].inv).scope
  /\ log[1].k = "call" /\ log[1].inv = Top /\ log[1].scope = data

\* C9 witness: the first element of the array binds u, the second does not,
\* the data does not either; the second iteration ran without u, and after
\* the loop the top-level raw-expression stage evaluated a path in the data.
C9_Witness ==
  /\ "u" \notin DOMAIN data
  /\ \E i \in EventsOf("call") :
       /\ log[i].inv = <<<<2, 1, 2>>>>
       /\ "u" \notin DOMAIN log[i].scope
       /\ "u" \in DOMAIN CallOf(<<<<2, 1, 1>>>>).scope
  /\ \E i \in EventsOf("expr") :
       log[i].inv = Top /\ log[i].tok.t = "expr" /\ log[i].scope = data

====
